---- MODULE Spec2Model ----
(***************************************************************************)
(* Magic-link authentication, session rotation, the tRPC request gate and  *)
(* the admin router of the backend, as a state machine over the three      *)
(* Prisma tables (User, MagicLink, Session).                               *)
(*                                                                         *)
(* Every handler is an async function: it runs synchronously up to its     *)
(* next `await`, and other requests' database operations may execute       *)
(* before the awaited operation returns.  A handler is therefore modelled  *)
(* as one step per awaited database operation: the step executes the       *)
(* operation atomically and runs the continuation up to the next await (or *)
(* to the return / throw).  The first step also takes the request up: the  *)
(* request gate and the synchronous code before the first await run in it. *)
(* Arguments that the code computes before an await (new Date(),           *)
(* generateTokenPair) are computed in the step before and kept in the      *)
(* request's locals.                                                       *)
(*                                                                         *)
(* A step on which a handler returns or throws leaves the response in      *)
(* `last`; the next step (Respond) sends it.                               *)
(*                                                                         *)
(* The clock is counted in ticks; a JWT carries whole seconds              *)
(* (iat = floor(Date.now() / 1000)), Date values carry ticks.              *)
(*                                                                         *)
(* Spec handles the requests one at a time, with every procedure;          *)
(* SpecRace has up to NumProcs requests in flight, with the procedures     *)
(* that read an account or a link in one operation and write it in a       *)
(* later one.  SpecSessions, SpecCase, SpecTokens and SpecLimiter handle   *)
(* the requests one at a time, with the procedures of one subject each:    *)
(* giving up sessions, addresses that differ in case, the JWT verifiers,   *)
(* and the login requests of one client behind the rate limiters of        *)
(* app.ts.  SpecHello is the frontend's hello store under calls of its     *)
(* three actions.  SpecSeed runs prisma/seed.ts between the requests of    *)
(* the login and role procedures; SpecRotate has overlapping logins and    *)
(* rotations and remembers which rotation overtook which; SpecExpiry       *)
(* starts with a session minted before the clock of the model; SpecEnv     *)
(* starts the backend under the environments of ProcessEnvs.               *)
(***************************************************************************)
EXTENDS Integers, Sequences, FiniteSets, TLC

\* ------------------------------------------------------------------ bounds
MaxTime == 1
TicksPerSec == 1
MaxLinks == 2
MaxCalls == 4
NumProcs == 2

\* --------------------------------------------------------- configuration
\* The lifetimes are scaled to the clock of the model: a Date lifetime of E
\* ticks makes a row issued at tick t expire once the clock has passed t + E
\* (expiresAt < now), a JWT lifetime of L seconds makes a token issued in
\* second s invalid from second s + L on.
\* env.MAGIC_LINK_EXPIRY_MINUTES * 60 * 1000, in ticks
MAGIC_LINK_EXPIRY == 0
\* env.JWT_ACCESS_EXPIRY, in seconds
JWT_ACCESS_EXPIRY == 1
\* env.JWT_REFRESH_EXPIRY, in seconds: a deployment that sets it longer than
\* the seven days of getRefreshTokenExpiry
JWT_REFRESH_EXPIRY == 2
\* the literal 7 * 24 * 60 * 60 * 1000 of getRefreshTokenExpiry, in ticks
SEVEN_DAYS == 0

NoTime == 0 - 1
NoUser == 0
NoSession == 0
NoLink == 0
NoToken == 0

SeedAdminId == 1
AdminEmail == "admin@example.com"
Emails == {"new@example.com"}
Roles == {"USER", "ADMIN"}
Procs == 1..NumProcs

\* auth.service.ts line 37 (try block) and line 43 (catch block)
TryMessage == "If an account exists, a magic link has been sent to your email."
CatchMessage == "If an account exists, a magic link has been sent to your email."

VARIABLES
  now,            \* Date.now(), in ticks
  users,          \* table User:      id -> row
  links,          \* table MagicLink: sequence of rows, id = index
  sessions,       \* table Session:   id -> row
  nextUserId,     \* cuid() for User rows
  nextSessionId,  \* cuid() for Session rows
  nextToken,      \* crypto.randomBytes: the next unused magic-link token
  mailbox,        \* magic-link tokens that were delivered by e-mail
  issuedAccess,   \* access credentials returned to clients
  issuedRefresh,  \* refresh credentials returned to clients
  req,            \* the requests in flight: slot -> handler position and locals
  last,           \* the response a handler has produced and the server not yet sent
  concurrency,    \* how many requests the server has in flight at most
  redeemed,       \* history: link tokens a verifyMagicLink call has answered with a pair
  revoked,        \* history: refresh credentials an account held when it was deactivated
  probe,          \* a token string handed to the Token Issuer's verify functions
  loggedOut,      \* history: refresh credentials given up by logout and logoutAll
  limiter,        \* the rate limiters' counters for the client, and the path
                  \* of the request they let through
  passed,         \* history: per window, the requestMagicLink calls let through
  helloStore,     \* the frontend's hello store: message and count
  helloCalls,     \* history: the calls made on the hello store
  seedRun,        \* the seed script: DEFAULT_ADMIN_EMAIL and its position
  seeded,         \* history: the seed runs that have ended, and the User
                  \* table as the last of them left it
  processEnv,     \* the environment the backend process is started with
  env,            \* what validateEnv made of it
  overtaken       \* history: the refreshToken calls in flight with a credential
                  \* for which another call has returned a pair meanwhile

vars == <<now, users, links, sessions, nextUserId, nextSessionId, nextToken,
          mailbox, issuedAccess, issuedRefresh, req, last, concurrency,
          redeemed, revoked, probe, loggedOut, limiter, passed,
          helloStore, helloCalls, seedRun, seeded, processEnv, env,
          overtaken>>

history == <<redeemed, revoked>>

\* what the request handlers never touch
limiting == <<limiter, passed>>
hello == <<helloStore, helloCalls>>
seeding == <<seedRun, seeded>>
startup == <<processEnv, env>>
aside == <<probe, loggedOut, limiting, hello, seeding, startup, overtaken>>

db == <<users, links, sessions, nextUserId, nextSessionId>>
clients == <<mailbox, issuedAccess, issuedRefresh>>

\* ---------------------------------------------------------- Token Issuer
Sec(t) == t \div TicksPerSec

generateMagicLinkToken == nextToken

\* env.JWT_SECRET and env.JWT_REFRESH_SECRET: a token records the secret it
\* was signed with
JWT_SECRET == "JWT_SECRET"
JWT_REFRESH_SECRET == "JWT_REFRESH_SECRET"

generateAccessToken(userId, email, role, t) ==
  [key |-> JWT_SECRET, type |-> "access", userId |-> userId, email |-> email,
   role |-> role, iat |-> Sec(t), exp |-> Sec(t) + JWT_ACCESS_EXPIRY]

generateRefreshToken(userId, t) ==
  [key |-> JWT_REFRESH_SECRET, type |-> "refresh", userId |-> userId,
   iat |-> Sec(t), exp |-> Sec(t) + JWT_REFRESH_EXPIRY]

generateTokenPair(userId, email, role, t) ==
  [accessToken |-> generateAccessToken(userId, email, role, t),
   refreshToken |-> generateRefreshToken(userId, t)]

\* a string that is no JWT
GarbageToken == [key |-> "none", type |-> "garbage"]
NullPayload == [type |-> "null"]
Thrown == [type |-> "thrown"]

\* jwt.verify: throws for a string that is no JWT, for a signature made
\* with another secret, and once floor(Date.now() / 1000) >= exp; returns
\* the payload otherwise
jwtVerify(token, secret, t) ==
  IF token.key # secret THEN Thrown
  ELSE IF Sec(t) >= token.exp THEN Thrown
  ELSE token

verifyAccessToken_noTypeCheck(token, t) ==
  LET payload == jwtVerify(token, JWT_SECRET, t) IN
  IF payload = Thrown THEN NullPayload ELSE payload

\* token.service.ts lines 55-63: try { verify; type check } catch { null }
verifyAccessToken(token, t) ==
  LET payload == jwtVerify(token, JWT_SECRET, t) IN
  IF payload = Thrown THEN NullPayload
  ELSE IF payload.type # "access" THEN NullPayload
  ELSE payload

\* token.service.ts lines 66-77
verifyRefreshToken(token, t) ==
  LET payload == jwtVerify(token, JWT_REFRESH_SECRET, t) IN
  IF payload = Thrown THEN NullPayload
  ELSE IF payload.type # "refresh" THEN NullPayload
  ELSE payload

getMagicLinkExpiry(t) == t + MAGIC_LINK_EXPIRY

getRefreshTokenExpiry(t) == t + SEVEN_DAYS

\* ------------------------------------------------------------ table access
UserIds == DOMAIN users
SessionIds == DOMAIN sessions
LinkIds == 1..Len(links)

UserByEmail(email) ==
  IF \E u \in UserIds : users[u].email = email
  THEN CHOOSE u \in UserIds : users[u].email = email
  ELSE NoUser

LinkByToken(token) ==
  IF \E l \in LinkIds : links[l].token = token
  THEN CHOOSE l \in LinkIds : links[l].token = token
  ELSE NoLink

SessionByRefreshToken(token) ==
  IF \E s \in SessionIds : sessions[s].refreshToken = token
  THEN CHOOSE s \in SessionIds : sessions[s].refreshToken = token
  ELSE NoSession

SessionsOf(userId) == {s \in SessionIds : sessions[s].userId = userId}

Without(f, ks) == [k \in (DOMAIN f) \ ks |-> f[k]]

NewUser_asAdmin(email) ==
  [email |-> email, role |-> "ADMIN", isActive |-> TRUE,
   lastLoginAt |-> NoTime]

\* model User: role @default(USER), isActive @default(true)
NewUser(email) ==
  [email |-> email, role |-> "USER", isActive |-> TRUE,
   lastLoginAt |-> NoTime]

\* ----------------------------------------------------------- request slots
Idle == [op |-> "idle", pc |-> "idle"]

NoResponse == [op |-> "none", arg |-> 0, res |-> [ok |-> FALSE, err |-> ""]]

Busy(p) == req[p].pc # "idle"

\* a handler resumes at its await `pc`
At(p, op, pc) == last = NoResponse /\ req[p].op = op /\ req[p].pc = pc

\* a request is accepted on the lowest slot that holds no request in flight
FreeSlot(p) ==
  /\ last = NoResponse
  /\ p <= concurrency
  /\ ~Busy(p)
  /\ \A q \in Procs : q < p => Busy(q)

\* the handler moves on to r; a handler that returned or threw (pc "done")
\* frees its slot and leaves its response (procedure, input, result) to be sent
Set(p, r) ==
  /\ UNCHANGED <<concurrency, history, aside>>
  /\ IF r.pc = "done"
     THEN /\ req' = [req EXCEPT ![p] = Idle]
          /\ last' = [op |-> r.op, arg |-> r.arg, res |-> r.res]
     ELSE /\ req' = [req EXCEPT ![p] = r]
          /\ UNCHANGED last

Fail(code) == [ok |-> FALSE, err |-> code]

EmptyTable == [k \in {} |-> k]

\* ------------------------------------------------------------- rate limiters
\* app.ts lines 49-67, scaled: windowMs is one tick of the clock, the auth
\* limiter's max is 1 (5 in the code) and the global limiter's is 3 (100)
windowMs == 1
globalLimiter_max == 3
authLimiter_max == 1

\* a limiter's record of the client: the hits counted in the window that
\* ends at resetTime
NoHits == [hits |-> 0, resetTime |-> 0]

NoRequests == [globalLimiter |-> NoHits, authLimiter |-> NoHits, path |-> "none"]

\* ---------------------------------------------------------------- hello store
\* helloStore.ts lines 11-13: the state the store is created with
useHelloStore == [message |-> "", count |-> 0]

\* zustand's set: the fields of the partial state replace those of the
\* state, the other fields stay
set(state, partial) ==
  [k \in DOMAIN state |-> IF k \in DOMAIN partial THEN partial[k] ELSE state[k]]

setMessage_countUnchanged(state, message) ==
  set(state, [message |-> message])

\* lines 14-18
setMessage(state, message) ==
  set(state, [message |-> message, count |-> state.count + 1])

incrementCount_clearsMessage(state) ==
  set(state, [message |-> "", count |-> state.count + 1])

\* lines 19-22
incrementCount(state) ==
  set(state, [count |-> state.count + 1])

\* lines 23-27
reset(state) ==
  set(state, [message |-> "", count |-> 0])

\* ---------------------------------------------------------------- seed script
\* process.env.DEFAULT_ADMIN_EMAIL when the variable is not set
Unset == ""

\* the script is not running
NoSeedRun ==
  [DEFAULT_ADMIN_EMAIL |-> Unset, pc |-> "idle", existingUser |-> NoUser,
   role |-> ""]

NotSeeded == [runs |-> 0, email |-> Unset, users |-> EmptyTable]

\* -------------------------------------------------------------- configuration
\* process.env[name] of a variable that is not set
Undefined == "undefined"

\* z.string().min(n)
z_string_min(value, n) == value # Undefined /\ Len(value) >= n

\* z.string().default(d): every string passes, the default stands in for a
\* variable that is not set
z_string_default(value, d) == IF value = Undefined THEN d ELSE value

\* Number(string), on the strings of the model
Number(value) ==
  IF value = "5" THEN [NaN |-> FALSE, value |-> 5]
  ELSE IF value = "15" THEN [NaN |-> FALSE, value |-> 15]
  ELSE [NaN |-> TRUE, value |-> 0]

\* env.ts lines 12-18: the five values of the JWT and Magic Link groups; the
\* other variables are set and well-formed
envSchema_safeParse(e) ==
  LET success == /\ z_string_min(e.JWT_SECRET, 32)
                 /\ z_string_min(e.JWT_REFRESH_SECRET, 32)
  IN
  IF success
  THEN [success |-> TRUE,
        data |-> [JWT_SECRET |-> e.JWT_SECRET,
                  JWT_REFRESH_SECRET |-> e.JWT_REFRESH_SECRET,
                  JWT_ACCESS_EXPIRY |-> z_string_default(e.JWT_ACCESS_EXPIRY, "15m"),
                  JWT_REFRESH_EXPIRY |-> z_string_default(e.JWT_REFRESH_EXPIRY, "7d"),
                  MAGIC_LINK_EXPIRY_MINUTES |->
                    Number(z_string_default(e.MAGIC_LINK_EXPIRY_MINUTES, "5"))]]
  ELSE [success |-> FALSE]

\* env.ts lines 37-47: throws unless the parse succeeded
validateEnv(e) ==
  LET parsed == envSchema_safeParse(e) IN
  IF ~parsed.success
  THEN [threw |-> TRUE]
  ELSE [threw |-> FALSE, data |-> parsed.data]

\* the environment of the deployment that serves the requests
DeployedEnv ==
  [JWT_SECRET |-> "access-secret-0123456789abcdef0123456789",
   JWT_REFRESH_SECRET |-> "refresh-secret-0123456789abcdef012345678",
   JWT_ACCESS_EXPIRY |-> "15m",
   JWT_REFRESH_EXPIRY |-> "30d",
   MAGIC_LINK_EXPIRY_MINUTES |-> "5"]

\* The database as seeded (prisma/seed.ts: one ADMIN account), with the
\* administrator logged in at time 0: one Session row and the credential
\* pair of that login in the administrator's hands.
Init ==
  /\ now = 0
  /\ users = (SeedAdminId :>
                [email |-> AdminEmail, role |-> "ADMIN", isActive |-> TRUE,
                 lastLoginAt |-> 0])
  /\ links = <<>>
  /\ sessions = (1 :> [userId |-> SeedAdminId,
                       refreshToken |-> generateRefreshToken(SeedAdminId, 0),
                       expiresAt |-> getRefreshTokenExpiry(0)])
  /\ nextUserId = SeedAdminId + 1
  /\ nextSessionId = 2
  /\ nextToken = 1
  /\ mailbox = {}
  /\ issuedAccess = {generateAccessToken(SeedAdminId, AdminEmail, "ADMIN", 0)}
  /\ issuedRefresh = {generateRefreshToken(SeedAdminId, 0)}
  /\ req = [p \in Procs |-> Idle]
  /\ last = NoResponse
  /\ concurrency = 1
  /\ redeemed = {}
  /\ revoked = {}
  /\ probe = GarbageToken
  /\ loggedOut = {}
  /\ limiter = NoRequests
  /\ passed = [t \in 0..MaxTime |-> 0]
  /\ helloStore = useHelloStore
  /\ helloCalls = <<>>
  /\ seedRun = NoSeedRun
  /\ seeded = NotSeeded
  /\ processEnv = DeployedEnv
  /\ env = validateEnv(DeployedEnv)
  /\ overtaken = {}

Tick ==
  /\ last = NoResponse
  /\ now < MaxTime
  /\ now' = now + 1
  /\ UNCHANGED <<db, nextToken, clients, req, last, concurrency, history, aside>>

\* the response goes out to the client; the history records a redemption
\* that returned a pair, and the refresh credentials that the account of a
\* deactivating toggleUserStatus call had been given
Respond ==
  /\ last # NoResponse
  /\ last' = NoResponse
  /\ redeemed' = IF last.op = "verifyMagicLink" /\ last.res.ok
                 THEN redeemed \cup {last.arg} ELSE redeemed
  /\ revoked' = IF last.op = "toggleUserStatus" /\ last.res.ok
                   /\ ~last.res.user.isActive
                THEN revoked \cup {t \in issuedRefresh : t.userId = last.res.user.id}
                ELSE revoked
  /\ UNCHANGED <<now, db, nextToken, clients, req, concurrency, aside>>

\* ------------------------------------------------ AuthService.requestMagicLink
Finish(r, res) == [op |-> r.op, pc |-> "done", arg |-> r.arg, res |-> res]

\* what requestMagicLink returns, from the try block (lines 36-38) and from
\* the catch block (lines 42-44); `path` records which way the call went and
\* is no part of the response
requestMagicLink_rethrow(thrown, path) ==
  IF thrown
  THEN [ok |-> FALSE, err |-> "INTERNAL_SERVER_ERROR", message |-> "", path |-> path]
  ELSE [ok |-> TRUE, err |-> "", message |-> TryMessage, path |-> path]

requestMagicLink_result(thrown, path) ==
  [ok |-> TRUE, err |-> "",
   message |-> IF thrown THEN CatchMessage ELSE TryMessage, path |-> path]

\* lines 12-18: the token, its expiry and user.findUnique({ where: { email } })
requestMagicLink_findUser(p, email) ==
  /\ FreeSlot(p)
  /\ nextToken <= MaxLinks
  /\ Set(p, [op |-> "requestMagicLink", pc |-> "createLink", arg |-> email,
             token |-> generateMagicLinkToken,
             expiresAt |-> getMagicLinkExpiry(now),
             existingUser |-> UserByEmail(email)])
  /\ nextToken' = nextToken + 1
  /\ UNCHANGED <<now, db, clients>>

\* lines 21-45: magicLink.create, then EmailService.sendMagicLinkEmail, whose
\* transporter.sendMail resolves or rejects.  No other handler can reach the
\* new row before its token is delivered, so both happen in one step.  The
\* create rejects when the database cannot be written, and when the account
\* found at line 16 is gone (foreign key MagicLink.userId -> User.id).
requestMagicLink_createLink(p) ==
  /\ At(p, "requestMagicLink", "createLink")
  /\ \E written \in BOOLEAN :
     LET r == req[p] IN
     IF ~written \/ (r.existingUser # NoUser /\ r.existingUser \notin UserIds)
     THEN \* caught at line 39
          /\ Set(p, Finish(r, requestMagicLink_result(TRUE, "createFailed")))
          /\ UNCHANGED <<links, mailbox>>
     ELSE /\ links' = Append(links,
                 [token |-> r.token, email |-> r.arg, expiresAt |-> r.expiresAt,
                  usedAt |-> NoTime, userId |-> r.existingUser])
          /\ \E delivered \in BOOLEAN :
               /\ mailbox' = IF delivered THEN mailbox \cup {r.token} ELSE mailbox
               /\ Set(p, Finish(r, requestMagicLink_result(~delivered,
                            IF ~delivered THEN "mailFailed"
                            ELSE IF r.existingUser = NoUser THEN "sentNoAccount"
                            ELSE "sentAccount")))
  /\ UNCHANGED <<now, users, sessions, nextUserId, nextSessionId, nextToken,
                 issuedAccess, issuedRefresh>>

requestMagicLink(p) ==
  \/ \E email \in Emails : requestMagicLink_findUser(p, email)
  \/ requestMagicLink_createLink(p)

\* ------------------------------------------------- AuthService.verifyMagicLink
IsExpired_never(expiresAt, t) == FALSE

\* line 74: magicLink.expiresAt < new Date()
IsExpired(expiresAt, t) == expiresAt < t

\* line 82: if (magicLink.usedAt)
IsUsed(link) == link.usedAt # NoTime

UserSummary(id) ==
  [id |-> id, email |-> users[id].email, role |-> users[id].role,
   isActive |-> users[id].isActive]

verifyMagicLink_checks_usedFirst(r, l) ==
  IF l = NoLink THEN Finish(r, Fail("NOT_FOUND"))
  ELSE IF IsUsed(links[l]) THEN Finish(r, Fail("ALREADY_USED"))
  ELSE IF IsExpired(links[l].expiresAt, now) THEN Finish(r, Fail("EXPIRED"))
  ELSE IF links[l].userId = NoUser
       THEN [op |-> r.op, pc |-> "createUser", arg |-> r.arg, link |-> l]
  ELSE IF ~users[links[l].userId].isActive THEN Finish(r, Fail("DEACTIVATED"))
  ELSE [op |-> r.op, pc |-> "markUsed", arg |-> r.arg, link |-> l,
        user |-> UserSummary(links[l].userId), created |-> FALSE, usedAt |-> now]

\* lines 61-105: the checks after findUnique({ include: { user } })
verifyMagicLink_checks(r, l) ==
  IF l = NoLink THEN Finish(r, Fail("NOT_FOUND"))
  ELSE IF IsExpired(links[l].expiresAt, now) THEN Finish(r, Fail("EXPIRED"))
  ELSE IF IsUsed(links[l]) THEN Finish(r, Fail("ALREADY_USED"))
  ELSE IF links[l].userId = NoUser
       THEN [op |-> r.op, pc |-> "createUser", arg |-> r.arg, link |-> l]
  ELSE IF ~users[links[l].userId].isActive THEN Finish(r, Fail("DEACTIVATED"))
  ELSE [op |-> r.op, pc |-> "markUsed", arg |-> r.arg, link |-> l,
        user |-> UserSummary(links[l].userId), created |-> FALSE, usedAt |-> now]

\* The handler does nothing before its first await, so the request is
\* taken up in the step in which findUnique executes.
verifyMagicLink_findLink(p, token) ==
  /\ FreeSlot(p)
  /\ Set(p, verifyMagicLink_checks([op |-> "verifyMagicLink", arg |-> token],
                                   LinkByToken(token)))
  /\ UNCHANGED <<now, db, nextToken, clients>>

\* lines 92-105: prisma.user.create({ data: { email: magicLink.email } })
verifyMagicLink_createUser(p) ==
  /\ At(p, "verifyMagicLink", "createUser")
  /\ LET r == req[p]
         email == links[r.link].email
         nu == NewUser(email)
     IN
     IF UserByEmail(email) # NoUser
     THEN \* unique constraint User.email
          /\ Set(p, Finish(r, Fail("P2002")))
          /\ UNCHANGED <<users, nextUserId>>
     ELSE /\ users' = users @@ (nextUserId :> nu)
          /\ nextUserId' = nextUserId + 1
          /\ Set(p, IF ~nu.isActive THEN Finish(r, Fail("DEACTIVATED"))
                    ELSE [op |-> r.op, pc |-> "markUsed", arg |-> r.arg,
                          link |-> r.link,
                          user |-> [id |-> nextUserId, email |-> nu.email,
                                    role |-> nu.role, isActive |-> nu.isActive],
                          created |-> TRUE, usedAt |-> now])
  /\ UNCHANGED <<now, links, sessions, nextSessionId, nextToken, clients>>

\* lines 108-121: magicLink.update, then generateTokenPair and the arguments
\* of session.create
verifyMagicLink_markUsed(p) ==
  /\ At(p, "verifyMagicLink", "markUsed")
  /\ LET r == req[p] IN
     IF r.user.id \notin UserIds
     THEN \* foreign key MagicLink.userId -> User.id
          /\ Set(p, Finish(r, Fail("P2003")))
          /\ UNCHANGED links
     ELSE /\ links' = [links EXCEPT ![r.link].usedAt = r.usedAt,
                                    ![r.link].userId = r.user.id]
          /\ Set(p, [op |-> r.op, pc |-> "createSession", arg |-> r.arg,
                     user |-> r.user, created |-> r.created,
                     tokens |-> generateTokenPair(r.user.id, r.user.email,
                                                  r.user.role, now),
                     expiresAt |-> getRefreshTokenExpiry(now)])
  /\ UNCHANGED <<now, users, sessions, nextUserId, nextSessionId, nextToken, clients>>

\* lines 117-123: prisma.session.create
verifyMagicLink_createSession(p) ==
  /\ At(p, "verifyMagicLink", "createSession")
  /\ LET r == req[p] IN
     IF r.user.id \notin UserIds
     THEN \* foreign key Session.userId -> User.id
          /\ Set(p, Finish(r, Fail("P2003")))
          /\ UNCHANGED <<sessions, nextSessionId>>
     ELSE IF SessionByRefreshToken(r.tokens.refreshToken) # NoSession
     THEN \* unique constraint Session.refreshToken
          /\ Set(p, Finish(r, Fail("P2002")))
          /\ UNCHANGED <<sessions, nextSessionId>>
     ELSE /\ sessions' = sessions @@
               (nextSessionId :> [userId |-> r.user.id,
                                  refreshToken |-> r.tokens.refreshToken,
                                  expiresAt |-> r.expiresAt])
          /\ nextSessionId' = nextSessionId + 1
          /\ Set(p, [op |-> r.op, pc |-> "touchUser", arg |-> r.arg,
                     user |-> r.user, created |-> r.created,
                     tokens |-> r.tokens, lastLoginAt |-> now])
  /\ UNCHANGED <<now, users, links, nextUserId, nextToken, clients>>

\* lines 126-143: prisma.user.update({ lastLoginAt }) and the return
verifyMagicLink_touchUser(p) ==
  /\ At(p, "verifyMagicLink", "touchUser")
  /\ LET r == req[p] IN
     IF r.user.id \notin UserIds
     THEN \* record to update not found
          /\ Set(p, Finish(r, Fail("P2025")))
          /\ UNCHANGED <<users, clients>>
     ELSE /\ users' = [users EXCEPT ![r.user.id].lastLoginAt = r.lastLoginAt]
          /\ Set(p, Finish(r, [ok |-> TRUE, err |-> "",
                               accessToken |-> r.tokens.accessToken,
                               refreshToken |-> r.tokens.refreshToken,
                               user |-> r.user, created |-> r.created]))
          /\ issuedAccess' = issuedAccess \cup {r.tokens.accessToken}
          /\ issuedRefresh' = issuedRefresh \cup {r.tokens.refreshToken}
          /\ UNCHANGED mailbox
  /\ UNCHANGED <<now, links, sessions, nextUserId, nextSessionId, nextToken>>

verifyMagicLink(p) ==
  \/ \E token \in mailbox \cup {NoToken} : verifyMagicLink_findLink(p, token)
  \/ verifyMagicLink_createUser(p)
  \/ verifyMagicLink_markUsed(p)
  \/ verifyMagicLink_createSession(p)
  \/ verifyMagicLink_touchUser(p)

\* --------------------------------------------------- AuthService.refreshToken
\* lines 152-195: verifyRefreshToken, findUnique({ include: { user } }) and
\* the checks after it
refreshToken_checks(r, s) ==
  IF verifyRefreshToken(r.arg, now) = NullPayload
  THEN Finish(r, Fail("INVALID_REFRESH_TOKEN"))
  ELSE IF s = NoSession THEN Finish(r, Fail("SESSION_NOT_FOUND"))
  ELSE IF IsExpired(sessions[s].expiresAt, now)
       THEN [op |-> r.op, pc |-> "deleteExpired", arg |-> r.arg, session |-> s]
  ELSE IF ~users[sessions[s].userId].isActive THEN Finish(r, Fail("DEACTIVATED"))
  ELSE LET u == users[sessions[s].userId] IN
       [op |-> r.op, pc |-> "rotate", arg |-> r.arg, session |-> s,
        tokens |-> generateTokenPair(sessions[s].userId, u.email, u.role, now),
        expiresAt |-> getRefreshTokenExpiry(now)]

refreshToken_findSession(p, token) ==
  /\ FreeSlot(p)
  /\ Set(p, refreshToken_checks([op |-> "refreshToken", arg |-> token],
                                SessionByRefreshToken(token)))
  /\ UNCHANGED <<now, db, nextToken, clients>>

\* line 175: prisma.session.delete({ where: { id } })
refreshToken_deleteExpired(p) ==
  /\ At(p, "refreshToken", "deleteExpired")
  /\ LET r == req[p] IN
     IF r.session \notin SessionIds
     THEN /\ Set(p, Finish(r, Fail("P2025")))
          /\ UNCHANGED sessions
     ELSE /\ sessions' = Without(sessions, {r.session})
          /\ Set(p, Finish(r, Fail("SESSION_EXPIRED")))
  /\ UNCHANGED <<now, users, links, nextUserId, nextSessionId, nextToken, clients>>

\* lines 198-206: prisma.session.update({ where: { id } }) and the return
refreshToken_rotate(p) ==
  /\ At(p, "refreshToken", "rotate")
  /\ LET r == req[p] IN
     IF r.session \notin SessionIds
     THEN /\ Set(p, Finish(r, Fail("P2025")))
          /\ UNCHANGED <<sessions, clients>>
     ELSE IF SessionByRefreshToken(r.tokens.refreshToken) \notin {NoSession, r.session}
     THEN \* unique constraint Session.refreshToken
          /\ Set(p, Finish(r, Fail("P2002")))
          /\ UNCHANGED <<sessions, clients>>
     ELSE /\ sessions' = [sessions EXCEPT
                            ![r.session].refreshToken = r.tokens.refreshToken,
                            ![r.session].expiresAt = r.expiresAt]
          /\ Set(p, Finish(r, [ok |-> TRUE, err |-> "",
                               accessToken |-> r.tokens.accessToken,
                               refreshToken |-> r.tokens.refreshToken,
                               session |-> r.session]))
          /\ issuedAccess' = issuedAccess \cup {r.tokens.accessToken}
          /\ issuedRefresh' = issuedRefresh \cup {r.tokens.refreshToken}
          /\ UNCHANGED mailbox
  /\ UNCHANGED <<now, users, links, nextUserId, nextSessionId, nextToken>>

refreshToken(p) ==
  \/ \E token \in issuedRefresh \cup {GarbageToken} :
       refreshToken_findSession(p, token)
  \/ refreshToken_deleteExpired(p)
  \/ refreshToken_rotate(p)

\* --------------------------------------------------------- AuthService.logout
\* lines 210-220: session.delete({ where: { refreshToken } }); a missing row
\* throws and the catch block swallows it
logout(p) ==
  \E token \in issuedRefresh \cup {GarbageToken} :
    /\ FreeSlot(p)
    /\ sessions' = Without(sessions, {SessionByRefreshToken(token)})
    /\ Set(p, Finish([op |-> "logout", arg |-> token],
                     [ok |-> TRUE, err |-> "", message |-> "Logged out successfully"]))
    /\ UNCHANGED <<now, users, links, nextUserId, nextSessionId, nextToken, clients>>

\* --------------------------------------------------------------- Request Gate
NoHeader == [scheme |-> "none", token |-> GarbageToken]
Bearer(token) == [scheme |-> "Bearer", token |-> token]
Malformed == [scheme |-> "Basic", token |-> GarbageToken]

\* the Authorization headers a client can send: none, one of another scheme,
\* and Bearer with a string that is no token or with a credential it was given
Headers ==
  {NoHeader, Malformed, Bearer(GarbageToken)}
  \cup {Bearer(t) : t \in issuedAccess \cup issuedRefresh}

createContext_anyScheme(hdr, t) ==
  [user |-> verifyAccessToken(hdr.token, t)]

\* context.ts lines 11-27
createContext(hdr, t) ==
  [user |-> IF hdr.scheme = "Bearer" THEN verifyAccessToken(hdr.token, t)
            ELSE NullPayload]

isAuthenticated_storedAccount(ctx) ==
  IF ctx.user = NullPayload THEN "UNAUTHORIZED"
  ELSE IF ctx.user.userId \notin UserIds THEN "UNAUTHORIZED"
  ELSE IF ~users[ctx.user.userId].isActive THEN "UNAUTHORIZED"
  ELSE "next"

\* trpc.ts isAuthenticated: the error code thrown, or "next"
isAuthenticated(ctx) ==
  IF ctx.user = NullPayload THEN "UNAUTHORIZED" ELSE "next"

isAdmin_roleUnchecked(ctx) ==
  IF ctx.user = NullPayload THEN "UNAUTHORIZED" ELSE "next"

\* trpc.ts isAdmin: the error code thrown, or "next"
isAdmin(ctx) ==
  IF ctx.user = NullPayload THEN "UNAUTHORIZED"
  ELSE IF ctx.user.role # "ADMIN" THEN "FORBIDDEN"
  ELSE "next"

publicProcedure(ctx) == "next"
protectedProcedure(ctx) == isAuthenticated(ctx)
adminProcedure(ctx) == isAdmin(ctx)

\* a middleware that throws: the resolver is not entered and the input is not
\* read; the response carries the middleware's error
Rejected(p, op, ctx, code) ==
  /\ FreeSlot(p)
  /\ code # "next"
  /\ Set(p, Finish([op |-> op, arg |-> [ctx |-> ctx.user]], Fail(code)))
  /\ UNCHANGED <<now, db, nextToken, clients>>

\* ------------------------------------------------------ AuthService.logoutAll
\* auth.router.ts lines 62-64 and auth.service.ts lines 223-229
logoutAll_deleteMany(p, hdr) ==
  LET ctx == createContext(hdr, now) IN
  /\ FreeSlot(p)
  /\ protectedProcedure(ctx) = "next"
  /\ sessions' = Without(sessions, SessionsOf(ctx.user.userId))
  /\ Set(p, Finish([op |-> "logoutAll", arg |-> [ctx |-> ctx.user]],
                   [ok |-> TRUE, err |-> "",
                    message |-> "All sessions logged out successfully"]))
  /\ UNCHANGED <<now, users, links, nextUserId, nextSessionId, nextToken, clients>>

logoutAll(p) ==
  \E hdr \in Headers :
    \/ Rejected(p, "logoutAll", createContext(hdr, now),
                protectedProcedure(createContext(hdr, now)))
    \/ logoutAll_deleteMany(p, hdr)

\* ------------------------------------------------- adminRouter.updateUserRole
updateUserRole_selfDenied_anyRole(ctxUser, userId, role) ==
  userId = ctxUser.userId

\* line 95: userId === ctx.user.userId && role !== 'ADMIN'
updateUserRole_selfDenied(ctxUser, userId, role) ==
  userId = ctxUser.userId /\ role # "ADMIN"

\* lines 91-115: the self check and prisma.user.update({ data: { role } })
updateUserRole_update(p, hdr, userId, role) ==
  LET ctx == createContext(hdr, now)
      r == [op |-> "updateUserRole",
            arg |-> [ctx |-> ctx.user, userId |-> userId, role |-> role]]
  IN
  /\ FreeSlot(p)
  /\ adminProcedure(ctx) = "next"
  /\ IF updateUserRole_selfDenied(ctx.user, userId, role)
     THEN /\ Set(p, Finish(r, Fail("SELF_ACTION")))
          /\ UNCHANGED users
     ELSE IF userId \notin UserIds
     THEN /\ Set(p, Finish(r, Fail("P2025")))
          /\ UNCHANGED users
     ELSE /\ users' = [users EXCEPT ![userId].role = role]
          /\ Set(p, Finish(r, [ok |-> TRUE, err |-> "",
                               user |-> [id |-> userId,
                                         email |-> users[userId].email,
                                         role |-> role,
                                         isActive |-> users[userId].isActive]]))
  /\ UNCHANGED <<now, links, sessions, nextUserId, nextSessionId, nextToken, clients>>

updateUserRole(p) ==
  \E hdr \in Headers :
    \/ Rejected(p, "updateUserRole", createContext(hdr, now),
                adminProcedure(createContext(hdr, now)))
    \/ \E userId \in 1..(nextUserId - 1), role \in Roles :
         updateUserRole_update(p, hdr, userId, role)

\* ----------------------------------------------- adminRouter.toggleUserStatus
\* line 125: userId === ctx.user.userId
toggleUserStatus_selfDenied(ctxUser, userId) == userId = ctxUser.userId

\* lines 121-145: the self check, findUnique, and the argument of the update
toggleUserStatus_findUser(p, hdr, userId) ==
  LET ctx == createContext(hdr, now)
      r == [op |-> "toggleUserStatus",
            arg |-> [ctx |-> ctx.user, userId |-> userId]]
  IN
  /\ FreeSlot(p)
  /\ adminProcedure(ctx) = "next"
  /\ Set(p, IF toggleUserStatus_selfDenied(ctx.user, userId)
            THEN Finish(r, Fail("SELF_ACTION"))
            ELSE IF userId \notin UserIds THEN Finish(r, Fail("NOT_FOUND"))
            ELSE r @@ [pc |-> "update", isActive |-> ~users[userId].isActive])
  /\ UNCHANGED <<now, db, nextToken, clients>>

\* lines 143-163: user.update({ isActive }), then deleteMany when deactivating
toggleUserStatus_update(p) ==
  /\ At(p, "toggleUserStatus", "update")
  /\ LET r == req[p]
         id == r.arg.userId
     IN
     IF id \notin UserIds
     THEN /\ Set(p, Finish(r, Fail("P2025")))
          /\ UNCHANGED users
     ELSE /\ users' = [users EXCEPT ![id].isActive = r.isActive]
          /\ LET user == [id |-> id, email |-> users[id].email,
                          role |-> users[id].role, isActive |-> r.isActive]
             IN Set(p, IF ~user.isActive
                       THEN [op |-> r.op, pc |-> "deleteMany", arg |-> r.arg,
                             user |-> user]
                       ELSE Finish(r, [ok |-> TRUE, err |-> "", user |-> user]))
  /\ UNCHANGED <<now, links, sessions, nextUserId, nextSessionId, nextToken, clients>>

\* lines 157-163: session.deleteMany({ where: { userId } })
toggleUserStatus_deleteMany(p) ==
  /\ At(p, "toggleUserStatus", "deleteMany")
  /\ sessions' = Without(sessions, SessionsOf(req[p].arg.userId))
  /\ Set(p, Finish(req[p], [ok |-> TRUE, err |-> "", user |-> req[p].user]))
  /\ UNCHANGED <<now, users, links, nextUserId, nextSessionId, nextToken, clients>>

toggleUserStatus(p) ==
  \/ \E hdr \in Headers :
       \/ Rejected(p, "toggleUserStatus", createContext(hdr, now),
                   adminProcedure(createContext(hdr, now)))
       \/ \E userId \in 1..(nextUserId - 1) : toggleUserStatus_findUser(p, hdr, userId)
  \/ toggleUserStatus_update(p)
  \/ toggleUserStatus_deleteMany(p)

\* ----------------------------------------------------- adminRouter.deleteUser
\* line 173: userId === ctx.user.userId
deleteUser_selfDenied(ctxUser, userId) == userId = ctxUser.userId

deleteUser_cascade_none(userId) == {}

\* docs/DATABASE.md lines 60-73: Session.user is onDelete: Cascade, so the
\* delete of an Account row deletes the Session rows that refer to it
deleteUser_cascade(userId) == SessionsOf(userId)

\* lines 169-184: the self check and prisma.user.delete; Session.user is
\* onDelete: Cascade, the optional MagicLink.user relation is set to null
deleteUser_delete(p, hdr, userId) ==
  LET ctx == createContext(hdr, now)
      r == [op |-> "deleteUser", arg |-> [ctx |-> ctx.user, userId |-> userId]]
  IN
  /\ FreeSlot(p)
  /\ adminProcedure(ctx) = "next"
  /\ IF deleteUser_selfDenied(ctx.user, userId)
     THEN /\ Set(p, Finish(r, Fail("SELF_ACTION")))
          /\ UNCHANGED <<users, sessions, links>>
     ELSE IF userId \notin UserIds
     THEN /\ Set(p, Finish(r, Fail("P2025")))
          /\ UNCHANGED <<users, sessions, links>>
     ELSE /\ users' = Without(users, {userId})
          /\ sessions' = Without(sessions, deleteUser_cascade(userId))
          /\ links' = [l \in LinkIds |->
                         IF links[l].userId = userId
                         THEN [links[l] EXCEPT !.userId = NoUser]
                         ELSE links[l]]
          /\ Set(p, Finish(r, [ok |-> TRUE, err |-> "",
                               message |-> "User deleted successfully"]))
  /\ UNCHANGED <<now, nextUserId, nextSessionId, nextToken, clients>>

deleteUser(p) ==
  \E hdr \in Headers :
    \/ Rejected(p, "deleteUser", createContext(hdr, now),
                adminProcedure(createContext(hdr, now)))
    \/ \E userId \in 1..(nextUserId - 1) : deleteUser_delete(p, hdr, userId)

Next ==
  \/ Tick
  \/ Respond
  \/ \E p \in Procs : requestMagicLink(p)
  \/ \E p \in Procs : verifyMagicLink(p)
  \/ \E p \in Procs : refreshToken(p)
  \/ \E p \in Procs : logout(p)
  \/ \E p \in Procs : logoutAll(p)
  \/ \E p \in Procs : updateUserRole(p)
  \/ \E p \in Procs : toggleUserStatus(p)
  \/ \E p \in Procs : deleteUser(p)

\* requests are handled one at a time
Spec == Init /\ [][Next]_vars

\* ------------------------------------------------------- overlapping requests
\* The administrator has logged in and out again and still holds the access
\* credential of that login; two links were requested and delivered, one by
\* the administrator and one for an address that has no account.  From here
\* up to NumProcs requests are in flight at a time.
InitRace ==
  /\ now = 0
  /\ users = (SeedAdminId :>
                [email |-> AdminEmail, role |-> "ADMIN", isActive |-> TRUE,
                 lastLoginAt |-> 0])
  /\ links = << [token |-> 1, email |-> AdminEmail,
                 expiresAt |-> getMagicLinkExpiry(0), usedAt |-> NoTime,
                 userId |-> SeedAdminId],
                [token |-> 2, email |-> "new@example.com",
                 expiresAt |-> getMagicLinkExpiry(0), usedAt |-> NoTime,
                 userId |-> NoUser] >>
  /\ sessions = EmptyTable
  /\ nextUserId = SeedAdminId + 1
  /\ nextSessionId = 1
  /\ nextToken = 3
  /\ mailbox = {1, 2}
  /\ issuedAccess = {generateAccessToken(SeedAdminId, AdminEmail, "ADMIN", 0)}
  /\ issuedRefresh = {}
  /\ req = [p \in Procs |-> Idle]
  /\ last = NoResponse
  /\ concurrency = NumProcs
  /\ redeemed = {}
  /\ revoked = {}
  /\ probe = GarbageToken
  /\ loggedOut = {}
  /\ limiter = NoRequests
  /\ passed = [t \in 0..MaxTime |-> 0]
  /\ helloStore = useHelloStore
  /\ helloCalls = <<>>
  /\ seedRun = NoSeedRun
  /\ seeded = NotSeeded
  /\ processEnv = DeployedEnv
  /\ env = validateEnv(DeployedEnv)
  /\ overtaken = {}

NextRace ==
  \/ Tick
  \/ Respond
  \/ \E p \in Procs : verifyMagicLink(p)
  \/ \E p \in Procs : refreshToken(p)
  \/ \E p \in Procs : toggleUserStatus(p)

SpecRace == InitRace /\ [][NextRace]_vars

\* ------------------------------------------------------- giving up sessions
\* Respond, with the history of the credentials given up: the credential of
\* a logout call, and the credentials that the caller of a logoutAll call
\* had been given
RespondLogged ==
  /\ last # NoResponse
  /\ last' = NoResponse
  /\ redeemed' = IF last.op = "verifyMagicLink" /\ last.res.ok
                 THEN redeemed \cup {last.arg} ELSE redeemed
  /\ loggedOut' =
       IF last.op = "logout" /\ last.res.ok
       THEN loggedOut \cup {[token |-> last.arg, by |-> "logout"]}
       ELSE IF last.op = "logoutAll" /\ last.res.ok
       THEN loggedOut \cup {[token |-> t, by |-> "logoutAll"] :
                             t \in {i \in issuedRefresh :
                                      i.userId = last.arg.ctx.userId}}
       ELSE loggedOut
  /\ UNCHANGED <<now, db, nextToken, clients, req, concurrency, revoked, probe,
                 limiting, hello, seeding, startup,
                               overtaken>>

NextSessions ==
  \/ Tick
  \/ RespondLogged
  \/ \E p \in Procs : requestMagicLink(p)
  \/ \E p \in Procs : verifyMagicLink(p)
  \/ \E p \in Procs : refreshToken(p)
  \/ \E p \in Procs : logout(p)
  \/ \E p \in Procs : logoutAll(p)

\* requests one at a time: logging in, rotating and logging out
SpecSessions == Init /\ [][NextSessions]_vars

\* ------------------------------------------- addresses that differ in case
\* magicLinkRequestSchema accepts every well-formed address as typed
CaseVariants == {"New@Example.com"}

\* String.prototype.toLowerCase on the addresses of the model
toLowerCase(email) ==
  IF email \in CaseVariants THEN "new@example.com" ELSE email

requestMagicLinkAsTyped(p) ==
  \/ \E email \in Emails \cup CaseVariants : requestMagicLink_findUser(p, email)
  \/ requestMagicLink_createLink(p)

NextCase ==
  \/ Tick
  \/ Respond
  \/ \E p \in Procs : requestMagicLinkAsTyped(p)
  \/ \E p \in Procs : verifyMagicLink(p)

\* requests one at a time: links are requested for addresses in either
\* spelling and redeemed
SpecCase == Init /\ [][NextCase]_vars

\* --------------------------------------------------- the verify functions
\* the handlers at rest
AuthIdle ==
  UNCHANGED <<db, nextToken, clients, req, last, concurrency, history>>

TokenKeys == {JWT_SECRET, JWT_REFRESH_SECRET, "other secret"}
TokenTypes == {"access", "refresh", "magic-link"}

\* the strings a client can present: no JWT at all, and JWTs with either
\* payload layout, any discriminator tag, signed with either secret of the
\* deployment or with a secret of the client's
TokenInputs ==
  {GarbageToken}
  \cup {[key |-> k, type |-> ty, userId |-> u, email |-> AdminEmail,
         role |-> "ADMIN", iat |-> i, exp |-> i + JWT_ACCESS_EXPIRY] :
          k \in TokenKeys, ty \in TokenTypes, u \in 1..2, i \in 0..Sec(MaxTime)}
  \cup {[key |-> k, type |-> ty, userId |-> u,
         iat |-> i, exp |-> i + JWT_REFRESH_EXPIRY] :
          k \in TokenKeys, ty \in TokenTypes, u \in 1..2, i \in 0..Sec(MaxTime)}

ProbeToken ==
  /\ \E token \in TokenInputs : probe' = token
  /\ UNCHANGED <<now, loggedOut, limiting, hello, seeding, startup,
                overtaken>>
  /\ AuthIdle

NextTokens ==
  \/ Tick
  \/ ProbeToken

SpecTokens == Init /\ [][NextTokens]_vars

\* ------------------------------------------------- requests through the limiters
\* express-rate-limit, as configured at app.ts lines 49-67: a request counts
\* one hit in the client's current window, and a window that has run out is
\* started anew
rateLimit_increment(client, t) ==
  IF t >= client.resetTime
  THEN [hits |-> 1, resetTime |-> t + windowMs]
  ELSE [client EXCEPT !.hits = @ + 1]

\* line 63, skipSuccessfulRequests: true: when the response to a request has
\* a status below 400 the hit it counted is taken back
rateLimit_decrement(client) ==
  [client EXCEPT !.hits = IF @ > 0 THEN @ - 1 ELSE 0]

\* lines 52 and 62: the 429 response of a limiter
TooManyRequests(path, message) ==
  [op |-> "rateLimit", arg |-> path,
   res |-> [ok |-> FALSE, err |-> "TOO_MANY_REQUESTS", message |-> message]]

AuthPaths == {"requestMagicLink", "verifyMagicLink"}

\* A request of the client for /trpc/auth.<path> goes through globalLimiter
\* (line 56) and authLimiter (lines 85-86).  Each counts the hit and answers
\* 429 when the count exceeds its max; otherwise the request goes on to the
\* tRPC handler.  The client sends no more in a window in which the global
\* limiter has turned it away.
Arrive(path) ==
  LET g == rateLimit_increment(limiter.globalLimiter, now)
      a == rateLimit_increment(limiter.authLimiter, now)
  IN
  /\ last = NoResponse
  /\ \A p \in Procs : ~Busy(p)
  /\ limiter.path = "none"
  /\ path = "requestMagicLink" => nextToken <= MaxLinks
  /\ g.hits <= globalLimiter_max + 1
  /\ IF g.hits > globalLimiter_max
     THEN /\ limiter' = [limiter EXCEPT !.globalLimiter = g]
          /\ last' = TooManyRequests(path,
                        "Too many requests, please try again later")
          /\ UNCHANGED passed
     ELSE IF a.hits > authLimiter_max
     THEN /\ limiter' = [limiter EXCEPT !.globalLimiter = g, !.authLimiter = a]
          /\ last' = TooManyRequests(path,
                        "Too many authentication attempts, please try again later")
          /\ UNCHANGED passed
     ELSE /\ limiter' = [globalLimiter |-> g, authLimiter |-> a, path |-> path]
          /\ passed' = IF path = "requestMagicLink"
                       THEN [passed EXCEPT ![now] = @ + 1]
                       ELSE passed
          /\ UNCHANGED last
  /\ UNCHANGED <<now, db, nextToken, clients, req, concurrency, history,
                 probe, loggedOut, hello, seeding, startup,
                               overtaken>>

\* the response goes out; authLimiter takes back the hit of a request that
\* it let through and that is answered with a status below 400
RespondLimited ==
  /\ last # NoResponse
  /\ last' = NoResponse
  /\ limiter' = IF limiter.path = "none"
                THEN limiter
                ELSE [limiter EXCEPT
                        !.path = "none",
                        !.authLimiter = IF last.res.ok
                                        THEN rateLimit_decrement(@) ELSE @]
  /\ UNCHANGED <<now, db, nextToken, clients, req, concurrency, history,
                 probe, loggedOut, passed, hello, seeding, startup,
                               overtaken>>

NextLimiter ==
  \/ Tick
  \/ RespondLimited
  \/ \E path \in AuthPaths : Arrive(path)
  \/ limiter.path = "requestMagicLink" /\ \E p \in Procs : requestMagicLink(p)
  \/ limiter.path = "verifyMagicLink" /\ \E p \in Procs : verifyMagicLink(p)

\* one client's login requests, one at a time, through both limiters
SpecLimiter == Init /\ [][NextLimiter]_vars

\* ------------------------------------------------------ calls on the hello store
Messages == {"", "Hello", "World"}

BackendIdle ==
  UNCHANGED <<now, db, nextToken, clients, req, last, concurrency, history,
              probe, loggedOut, limiting, seeding, startup,
                            overtaken>>

\* a component calls an action of the store; the history records the call
Called(fn, arg, state) ==
  /\ Len(helloCalls) < MaxCalls
  /\ helloStore' = state
  /\ helloCalls' = Append(helloCalls, [fn |-> fn, arg |-> arg])
  /\ BackendIdle

setMessageCall ==
  \E message \in Messages :
    Called("setMessage", message, setMessage(helloStore, message))

incrementCountCall == Called("incrementCount", "", incrementCount(helloStore))

resetCall == Called("reset", "", reset(helloStore))

NextHello ==
  \/ setMessageCall
  \/ incrementCountCall
  \/ resetCall

SpecHello == Init /\ [][NextHello]_vars

\* ------------------------------------------------------------ prisma/seed.ts
MaxSeedRuns == 3

\* what DEFAULT_ADMIN_EMAIL is set to: nothing, the address of an account,
\* and a string that is no address
SeedEnv == {Unset, AdminEmail, "not-an-address"} \cup Emails

\* line 19: /^[^\s@]+@[^\s@]+\.[^\s@]+$/ on the strings of the model
emailRegex_test(email) == email \in {AdminEmail} \cup Emails \cup CaseVariants

SeedIdle ==
  UNCHANGED <<now, links, sessions, nextSessionId, nextToken, clients, req,
              last, concurrency, history, probe, loggedOut, limiting, hello,
              startup,
                            overtaken>>

\* the script ends (return, process.exit or the end of main)
seed_exit(email) ==
  /\ seedRun' = NoSeedRun
  /\ seeded' = [runs |-> seeded.runs + 1, email |-> email, users |-> users']

seed_promote_never(role) == FALSE

\* line 34: existingUser.role !== UserRole.ADMIN
seed_promote(role) == role # "ADMIN"

\* lines 9-30: the script is started while the backend handles no request;
\* it returns when the variable is not set, exits when it holds no address,
\* and otherwise looks the account up
seed_findUser ==
  \E email \in SeedEnv :
    /\ seedRun.pc = "idle"
    /\ seeded.runs < MaxSeedRuns
    /\ last = NoResponse
    /\ \A p \in Procs : ~Busy(p)
    /\ IF email = Unset \/ ~emailRegex_test(email)
       THEN /\ UNCHANGED <<users, nextUserId>>
            /\ seed_exit(email)
       ELSE /\ seedRun' = [DEFAULT_ADMIN_EMAIL |-> email, pc |-> "write",
                           existingUser |-> UserByEmail(email),
                           role |-> IF UserByEmail(email) = NoUser THEN ""
                                    ELSE users[UserByEmail(email)].role]
            /\ UNCHANGED <<users, nextUserId, seeded>>
    /\ SeedIdle

\* lines 32-53: user.update({ where: { email } }) when the account found is
\* no ADMIN, nothing when it is, user.create when none was found; an update
\* of a row that is gone and a create of an address that is taken reject,
\* and the script exits
seed_write ==
  LET email == seedRun.DEFAULT_ADMIN_EMAIL
      found == seedRun.existingUser
      current == UserByEmail(email)
  IN
  /\ seedRun.pc = "write"
  /\ IF found # NoUser
     THEN /\ users' = IF seed_promote(seedRun.role) /\ current # NoUser
                       THEN [users EXCEPT ![current].role = "ADMIN"]
                       ELSE users
          /\ UNCHANGED nextUserId
     ELSE IF current # NoUser
     THEN UNCHANGED <<users, nextUserId>>
     ELSE /\ users' = users @@ (nextUserId :>
                         [email |-> email, role |-> "ADMIN", isActive |-> TRUE,
                          lastLoginAt |-> NoTime])
          /\ nextUserId' = nextUserId + 1
  /\ seed_exit(email)
  /\ SeedIdle

SeedOver == seedRun.pc = "idle"

NextSeed ==
  \/ seed_findUser
  \/ seed_write
  \/ SeedOver /\ Tick
  \/ SeedOver /\ Respond
  \/ SeedOver /\ \E p \in Procs : requestMagicLink(p)
  \/ SeedOver /\ \E p \in Procs : verifyMagicLink(p)
  \/ SeedOver /\ \E p \in Procs : updateUserRole(p)

\* runs of the seed script between the requests of a backend that handles
\* them one at a time
SpecSeed == Init /\ [][NextSeed]_vars

\* ------------------------------------------------------ overlapping rotations
\* the slots with a refreshToken call in flight that presents `token`
RefreshingWith(token) ==
  {p \in Procs : req[p].op = "refreshToken" /\ req[p].arg = token}

\* Respond, with the history of the calls overtaken: when a refreshToken
\* call has returned a pair, the calls in flight that present the same
\* credential; a call is dropped from the history when it ends
RespondOvertaking ==
  /\ last # NoResponse
  /\ last' = NoResponse
  /\ redeemed' = IF last.op = "verifyMagicLink" /\ last.res.ok
                 THEN redeemed \cup {last.arg} ELSE redeemed
  /\ overtaken' =
       {c \in overtaken \cup
               (IF last.op = "refreshToken" /\ last.res.ok
                THEN {[token |-> last.arg, slot |-> p] : p \in RefreshingWith(last.arg)}
                ELSE {}) :
          c.slot \in RefreshingWith(c.token)}
  /\ UNCHANGED <<now, db, nextToken, clients, req, concurrency, revoked, probe,
                 loggedOut, limiting, hello, seeding, startup>>

NextRotate ==
  \/ Tick
  \/ RespondOvertaking
  \/ \E p \in Procs : verifyMagicLink(p)
  \/ \E p \in Procs : refreshToken(p)

\* logins and rotations, up to NumProcs of them in flight
SpecRotate == InitRace /\ [][NextRotate]_vars

\* ---------------------------------------------------------- sessions running out
\* the time of a login before the clock of the model starts
LoginBefore == 0 - 1

\* As Init, with the administrator's login one tick earlier: its Session row
\* runs out before its refresh credential does, and the credential runs out
\* within the time of the model.
InitExpiry ==
  /\ now = 0
  /\ users = (SeedAdminId :>
                [email |-> AdminEmail, role |-> "ADMIN", isActive |-> TRUE,
                 lastLoginAt |-> 0])
  /\ links = <<>>
  /\ sessions = (1 :> [userId |-> SeedAdminId,
                       refreshToken |-> generateRefreshToken(SeedAdminId, LoginBefore),
                       expiresAt |-> getRefreshTokenExpiry(LoginBefore)])
  /\ nextUserId = SeedAdminId + 1
  /\ nextSessionId = 2
  /\ nextToken = 1
  /\ mailbox = {}
  /\ issuedAccess = {generateAccessToken(SeedAdminId, AdminEmail, "ADMIN", LoginBefore)}
  /\ issuedRefresh = {generateRefreshToken(SeedAdminId, LoginBefore)}
  /\ req = [p \in Procs |-> Idle]
  /\ last = NoResponse
  /\ concurrency = 1
  /\ redeemed = {}
  /\ revoked = {}
  /\ probe = GarbageToken
  /\ loggedOut = {}
  /\ limiter = NoRequests
  /\ passed = [t \in 0..MaxTime |-> 0]
  /\ helloStore = useHelloStore
  /\ helloCalls = <<>>
  /\ seedRun = NoSeedRun
  /\ seeded = NotSeeded
  /\ processEnv = DeployedEnv
  /\ env = validateEnv(DeployedEnv)
  /\ overtaken = {}

NextExpiry ==
  \/ Tick
  \/ Respond
  \/ \E p \in Procs : requestMagicLink(p)
  \/ \E p \in Procs : verifyMagicLink(p)
  \/ \E p \in Procs : refreshToken(p)

\* logins and rotations, one at a time, around the end of a session
SpecExpiry == InitExpiry /\ [][NextExpiry]_vars

\* ------------------------------------------------------------ backend start-up
\* what an operator can set a secret to: nothing, a string shorter than 32
\* characters, and the two secrets of the deployment
SecretValues ==
  {Undefined, "short-secret", DeployedEnv.JWT_SECRET, DeployedEnv.JWT_REFRESH_SECRET}

\* nothing, a time span, and a string that is none
ExpiryValues == {Undefined, "15m", "30d", "soon"}

\* nothing, a number, and a string that is none
MinutesValues == {Undefined, "5", "five"}

ProcessEnvs ==
  [JWT_SECRET : SecretValues,
   JWT_REFRESH_SECRET : SecretValues,
   JWT_ACCESS_EXPIRY : ExpiryValues,
   JWT_REFRESH_EXPIRY : ExpiryValues,
   MAGIC_LINK_EXPIRY_MINUTES : MinutesValues]

\* env.ts line 49: the backend process is started with an environment and
\* evaluates validateEnv() when the module is loaded
startBackend ==
  /\ \E e \in ProcessEnvs :
       /\ processEnv' = e
       /\ env' = validateEnv(e)
  /\ UNCHANGED <<now, db, nextToken, clients, req, last, concurrency, history,
                 probe, loggedOut, limiting, hello, seeding, overtaken>>

NextEnv == startBackend

SpecEnv == Init /\ [][NextEnv]_vars

\* ================================================================ properties
AdminOps == {"updateUserRole", "toggleUserStatus", "deleteUser"}

AllIdle == \A p \in Procs : ~Busy(p)

\* a step on which a handler returns or throws
Responds == last = NoResponse /\ last' # NoResponse

\* refreshToken, called now with `token`, would rotate a Session
Accepts(token) ==
  refreshToken_checks([op |-> "refreshToken", arg |-> token],
                      SessionByRefreshToken(token)).pc = "rotate"

\* C1: of the overlapping verifyMagicLink calls for one token at most one
\* returns a credential pair: no call returns a pair for a token for which a
\* pair has been returned before.
C1_AtMostOnePair ==
  (last.op = "verifyMagicLink" /\ last.res.ok) => last.arg \notin redeemed
\* C2: a successful refreshToken call rotates in place the one Session row
\* that held the presented credential (same row id, no second row), and the
\* presented credential is rejected when it is presented again.
C2_RotatedInPlace ==
  (last.op = "refreshToken" /\ last.res.ok) =>
    /\ last.res.session \in SessionIds
    /\ sessions[last.res.session].refreshToken = last.res.refreshToken
    /\ Cardinality({s \in SessionIds :
         sessions[s].refreshToken \in {last.arg, last.res.refreshToken}}) = 1
    /\ ~Accepts(last.arg)

\* C3: a refreshToken call with a credential that the account held when
\* toggleUserStatus deactivated it fails, in every later state.
C3_RevokedStaysRevoked ==
  (last.op = "refreshToken" /\ last.arg \in revoked) => ~last.res.ok

\* an admin procedure whose tier check passed and whose userId is the caller's
SelfTargeted(r) ==
  /\ r.op \in AdminOps
  /\ r.res.err \notin {"UNAUTHORIZED", "FORBIDDEN"}
  /\ r.arg.userId = r.arg.ctx.userId

\* C4 as stated: every self-targeted updateUserRole, toggleUserStatus and
\* deleteUser call fails with the self-action error, whatever the role asked.
C4_SelfActionAlwaysDenied ==
  SelfTargeted(last) => last.res.err = "SELF_ACTION"

\* C4 amended: a self-targeted toggleUserStatus or deleteUser call, and a
\* self-targeted updateUserRole call asking for a role other than ADMIN,
\* fails with the self-action error and writes nothing; a self-targeted
\* updateUserRole call asking for ADMIN passes the self check, and when it
\* succeeds the caller's row holds role ADMIN and is otherwise as before.
C4_SelfDemotionDenied ==
  [][(Responds /\ SelfTargeted(last')) =>
       LET self == last'.arg.userId IN
       IF last'.op = "updateUserRole" /\ last'.arg.role = "ADMIN"
       THEN /\ last'.res.err # "SELF_ACTION"
            /\ last'.res.ok =>
                 /\ self \in UserIds
                 /\ users' = [users EXCEPT ![self].role = "ADMIN"]
            /\ UNCHANGED <<links, sessions>>
       ELSE /\ last'.res.err = "SELF_ACTION"
            /\ UNCHANGED <<users, links, sessions>>]_vars

C4_Witness ==
  /\ SelfTargeted(last)
  /\ last.op = "updateUserRole"
  /\ last.arg.role = "ADMIN"
  /\ last.res.ok

\* C5: the response of requestMagicLink is the same value whether the address
\* has an account, has none, the e-mail was not delivered or the row was not
\* written.
C5_SameResponse ==
  last.op = "requestMagicLink" =>
    [ok |-> last.res.ok, err |-> last.res.err, message |-> last.res.message]
      = [ok |-> TRUE, err |-> "", message |-> TryMessage]

\* delivery failed for an address that has an account, after a link for the
\* same address was delivered
C5_Witness ==
  /\ last.op = "requestMagicLink"
  /\ last.res.path = "mailFailed"
  /\ UserByEmail(last.arg) # NoUser
  /\ \E l \in LinkIds : links[l].email = last.arg /\ links[l].token \in mailbox

GatedOps == AdminOps \cup {"logoutAll"}

\* the tier a procedure is declared with, and what the tier decides for an
\* identity, as the specification states it
TierVerdict(op, identity) ==
  IF op \in AdminOps
  THEN IF identity = NullPayload THEN "UNAUTHORIZED"
       ELSE IF identity.role # "ADMIN" THEN "FORBIDDEN"
       ELSE "next"
  ELSE IF op = "logoutAll"
  THEN IF identity = NullPayload THEN "UNAUTHORIZED" ELSE "next"
  ELSE "next"

\* C6: a protected procedure fails with UNAUTHORIZED for an anonymous
\* request; an admin procedure fails with UNAUTHORIZED for an anonymous
\* request and with FORBIDDEN for an identity whose role is not ADMIN; a
\* request that fails its tier check is answered before any handler step and
\* writes nothing, a request that passes is not answered with a tier error,
\* and every protected or admin handler in flight passed its tier check.
C6_TierHierarchy ==
  [][/\ (Responds /\ last'.op \in GatedOps) =>
          LET verdict == TierVerdict(last'.op, last'.arg.ctx) IN
          IF verdict # "next"
          THEN last'.res.err = verdict /\ AllIdle /\ UNCHANGED db
          ELSE last'.res.err \notin {"UNAUTHORIZED", "FORBIDDEN"}
     /\ \A p \in Procs :
          req'[p].op \in GatedOps =>
            TierVerdict(req'[p].op, req'[p].arg.ctx) = "next"]_vars

\* an authenticated non-admin called an admin procedure
C6_Witness ==
  /\ last.op \in AdminOps
  /\ last.arg.ctx # NullPayload
  /\ last.res.err = "FORBIDDEN"

\* a verifyMagicLink call that found its link valid, unexpired, unconsumed
\* and bound to an active account
FoundRedeemable(r) ==
  /\ r.op = "verifyMagicLink"
  /\ r.pc \in {"markUsed", "createSession", "touchUser"}
  /\ ~r.created

\* C7: requests handled one at a time: a verifyMagicLink call that found its
\* link valid, unexpired, unconsumed and its account active returns a pair;
\* no call returns a pair for a token a pair was returned for; and a call
\* for such a token fails with 'already used' while the link has not expired.
C7_RedeemedOnce ==
  [][(Responds /\ last'.op = "verifyMagicLink") =>
       /\ \A p \in Procs : FoundRedeemable(req[p]) => last'.res.ok
       /\ last'.res.ok => last'.arg \notin redeemed
       /\ (/\ last'.arg \in redeemed
           /\ ~IsExpired(links[LinkByToken(last'.arg)].expiresAt, now))
            => last'.res.err = "ALREADY_USED"]_vars

\* the step takes up a verifyMagicLink call for `token`
VerifyTakenUp(token) ==
  /\ AllIdle
  /\ last = NoResponse
  /\ \/ last'.op = "verifyMagicLink" /\ last'.arg = token
     \/ \E p \in Procs : req'[p].op = "verifyMagicLink" /\ req'[p].arg = token

\* C8: a verifyMagicLink call made when the clock has passed the link's
\* expiry fails with 'expired', consumed or not, on its first step, and
\* changes no Account, no Session and no MagicLink row.
C8_ExpiredFirst ==
  [][\A token \in mailbox :
       (/\ VerifyTakenUp(token)
        /\ LinkByToken(token) # NoLink
        /\ links[LinkByToken(token)].expiresAt < now)
         => /\ last'.op = "verifyMagicLink"
            /\ last'.res.err = "EXPIRED"
            /\ UNCHANGED db]_vars

\* an expired link that had been consumed is answered 'expired'
C8_Witness ==
  /\ last.op = "verifyMagicLink"
  /\ last.res.err = "EXPIRED"
  /\ IsUsed(links[LinkByToken(last.arg)])

\* C9: a redemption that finds its link unbound while an account with the
\* link's address exists returns a pair for that account; no two Account
\* rows hold the same address.
C9_ResolvesExistingAccount ==
  [][/\ \A p \in Procs :
          (/\ req[p].op = "verifyMagicLink"
           /\ req[p].pc = "createUser"
           /\ UserByEmail(links[req[p].link].email) # NoUser
           /\ Responds)
            => /\ last'.res.ok
               /\ last'.res.user.id = UserByEmail(links[req[p].link].email)
     /\ \A u, v \in DOMAIN users' :
          users'[u].email = users'[v].email => u = v]_vars

\* C10: a redemption that creates the account goes on to return; its response
\* carries the new account with role USER and isActive true, an access and a
\* refresh credential; in the state it returns in, the address has exactly
\* that Account, the account has exactly one Session and it holds the
\* returned refresh credential, the link is consumed and bound to the
\* account, and refreshToken accepts the returned credential while the
\* credential and the Session have not expired.
C10_NewAccountLogin ==
  /\ \A u \in UserIds :
       users[u].lastLoginAt = NoTime =>
         \E p \in Procs :
           /\ req[p].op = "verifyMagicLink"
           /\ req[p].pc \in {"markUsed", "createSession", "touchUser"}
           /\ req[p].created
           /\ req[p].user.id = u
  /\ (last.op = "verifyMagicLink" /\ last.res.ok /\ last.res.created) =>
       LET u == last.res.user.id
           l == LinkByToken(last.arg)
           rt == last.res.refreshToken
       IN
       /\ last.res.user.role = "USER"
       /\ last.res.user.isActive
       /\ last.res.accessToken.type = "access"
       /\ last.res.accessToken.userId = u
       /\ rt.type = "refresh"
       /\ {v \in UserIds : users[v].email = links[l].email} = {u}
       /\ users[u].role = "USER"
       /\ users[u].isActive
       /\ \E s \in SessionIds :
            /\ SessionsOf(u) = {s}
            /\ sessions[s].refreshToken = rt
            /\ (/\ ~IsExpired(sessions[s].expiresAt, now)
                /\ verifyRefreshToken(rt, now) # NullPayload) => Accepts(rt)
       /\ IsUsed(links[l])
       /\ links[l].userId = u

C10_Witness ==
  /\ last.op = "verifyMagicLink"
  /\ last.res.ok
  /\ last.res.created
  /\ Accepts(last.res.refreshToken)

\* C11: verifyAccessToken and verifyRefreshToken return null or the payload,
\* never throw; they return the payload only for an unexpired token signed
\* with their own secret that carries their own tag, so null for a string
\* that is no JWT, a wrong key, an expired token and a wrong tag; a token
\* tagged refresh resolves to no identity at the Request Gate and a token
\* tagged access is rejected by refreshToken.
C11_VerifyNullNeverThrow ==
  LET a == verifyAccessToken(probe, now)
      r == verifyRefreshToken(probe, now)
  IN
  /\ a \in {NullPayload, probe}
  /\ r \in {NullPayload, probe}
  /\ a = probe =>
       probe.key = JWT_SECRET /\ probe.type = "access" /\ Sec(now) < probe.exp
  /\ r = probe =>
       /\ probe.key = JWT_REFRESH_SECRET
       /\ probe.type = "refresh"
       /\ Sec(now) < probe.exp
  /\ probe.type # "access" =>
       /\ a = NullPayload
       /\ createContext(Bearer(probe), now).user = NullPayload
  /\ probe.type # "refresh" =>
       /\ r = NullPayload
       /\ refreshToken_checks([op |-> "refreshToken", arg |-> probe],
                              SessionByRefreshToken(probe))
            = Finish([op |-> "refreshToken", arg |-> probe],
                     Fail("INVALID_REFRESH_TOKEN"))

\* an unexpired token with the refresh tag, signed with the access secret
C11_Witness ==
  /\ probe.type = "refresh"
  /\ probe.key = JWT_SECRET
  /\ Sec(now) < probe.exp

\* the four kinds of request the Request Gate is to treat as anonymous, built
\* from the token under test: no Authorization header, a header of another
\* scheme (whatever it carries), and Bearer with an expired or an invalid
\* access token
AnonymousHeaders ==
  {NoHeader, Malformed, [scheme |-> "Basic", token |-> probe]}
  \cup (IF \/ probe.key # JWT_SECRET
           \/ probe.type # "access"
           \/ Sec(now) >= probe.exp
        THEN {Bearer(probe)} ELSE {})

\* C12: a request without Authorization header, with a header that is not
\* 'Bearer <token>', with an expired and with an invalid access token all
\* resolve to the one anonymous identity, and each tier decides the same
\* for all of them: public runs, protected and admin fail with UNAUTHORIZED.
C12_OneAnonymousIdentity ==
  \A hdr \in AnonymousHeaders :
    LET ctx == createContext(hdr, now) IN
    /\ ctx = [user |-> NullPayload]
    /\ publicProcedure(ctx) = "next"
    /\ protectedProcedure(ctx) = "UNAUTHORIZED"
    /\ adminProcedure(ctx) = "UNAUTHORIZED"

\* the token under test is an access token of the deployment that has
\* expired
C12_Witness ==
  /\ probe.key = JWT_SECRET
  /\ probe.type = "access"
  /\ Sec(now) >= probe.exp
  /\ Bearer(probe) \in AnonymousHeaders

\* C13: every Account holds its address in lower case, and no two Account
\* rows hold addresses that are equal up to letter case.
C13_AddressUniqueUpToCase ==
  \A u, v \in UserIds :
    /\ users[u].email = toLowerCase(users[u].email)
    /\ toLowerCase(users[u].email) = toLowerCase(users[v].email) => u = v

LogoutResult == [ok |-> TRUE, err |-> "", message |-> "Logged out successfully"]

\* C14: logout returns the same success result whether or not a Session
\* holds the credential, deletes the Session that holds it and changes no
\* other row (none when no Session holds it), and a refreshToken call with a
\* credential that was logged out fails.
C14_LogoutIdempotent ==
  [][/\ (Responds /\ last'.op = "logout") =>
          /\ last'.res = LogoutResult
          /\ sessions' = Without(sessions,
               {s \in SessionIds : sessions[s].refreshToken = last'.arg})
          /\ UNCHANGED <<users, links>>
     /\ (/\ Responds
         /\ last'.op = "refreshToken"
         /\ [token |-> last'.arg, by |-> "logout"] \in loggedOut)
          => ~last'.res.ok]_vars

LogoutAllResult ==
  [ok |-> TRUE, err |-> "", message |-> "All sessions logged out successfully"]

\* C15: a logoutAll call by an authenticated account deletes every Session of
\* that account and changes no Session of another account, no Account and no
\* MagicLink, and afterwards a refreshToken call with a refresh credential
\* that had been issued to that account before the call fails.
C15_LogoutAllFrame ==
  [][/\ (Responds /\ last'.op = "logoutAll" /\ last'.res.ok) =>
          /\ last'.res = LogoutAllResult
          /\ sessions' = Without(sessions, SessionsOf(last'.arg.ctx.userId))
          /\ UNCHANGED <<users, links>>
     /\ (/\ Responds
         /\ last'.op = "refreshToken"
         /\ [token |-> last'.arg, by |-> "logoutAll"] \in loggedOut)
          => ~last'.res.ok]_vars

\* account ids that were given out and whose Account row has been deleted
DeletedUsers == (1..(nextUserId - 1)) \ UserIds

\* C16: a successful deleteUser call deletes every Session of the deleted
\* account and no Session of another account, and from then on no Session of
\* a deleted account exists and refreshToken accepts no refresh credential
\* that was issued to a deleted account.
C16_DeletedAccountHoldsNothing ==
  [][/\ (Responds /\ last'.op = "deleteUser" /\ last'.res.ok) =>
          sessions' = Without(sessions, SessionsOf(last'.arg.userId))
     /\ \A u \in DeletedUsers' :
          /\ SessionsOf(u)' = {}
          /\ \A t \in issuedRefresh' : t.userId = u => (~Accepts(t))']_vars

\* a deleteUser call has succeeded for an account that held a refresh
\* credential while another account holds a Session
C16_Witness ==
  /\ last.op = "deleteUser"
  /\ last.res.ok
  /\ last.arg.userId \in DeletedUsers
  /\ \E t \in issuedRefresh : t.userId = last.arg.userId
  /\ \E s \in SessionIds : sessions[s].userId # last.arg.userId

\* C17: in no window does the auth rate limiter let more requestMagicLink
\* calls of the client through to the handler than its max; the calls after
\* that are answered 429 by the limiter.
C17_AtMostMaxPerWindow ==
  \A t \in 0..MaxTime : passed[t] <= authLimiter_max

\* a toggleUserStatus call has deactivated the account and has not yet
\* deleted its sessions
Deactivating(u) ==
  \E p \in Procs :
    /\ req[p].op = "toggleUserStatus"
    /\ req[p].pc = "deleteMany"
    /\ req[p].arg.userId = u

\* C18: once the toggleUserStatus call that deactivated an account has
\* returned, no Session of the account exists for as long as its isActive
\* flag is false, whatever verifyMagicLink and refreshToken calls for the
\* account were in flight during the call.
C18_DeactivatedHoldsNoSession ==
  \A u \in UserIds :
    (~users[u].isActive /\ ~Deactivating(u)) => SessionsOf(u) = {}

\* the position of the last reset call in the history, 0 when there is none
LastReset ==
  LET resets == {i \in 1..Len(helloCalls) : helloCalls[i].fn = "reset"} IN
  IF resets = {} THEN 0 ELSE CHOOSE i \in resets : \A j \in resets : j <= i

\* the positions of the calls of the given actions made since the last reset
CallsSinceReset(fns) ==
  {i \in (LastReset + 1)..Len(helloCalls) : helloCalls[i].fn \in fns}

\* C19: count is the number of setMessage and incrementCount calls made
\* since the last reset (since creation when there was none), and message is
\* the argument of the latest setMessage call since then, the empty string
\* when there was none.
C19_CountAndMessageFollowCalls ==
  LET sets == CallsSinceReset({"setMessage"}) IN
  /\ helloStore.count = Cardinality(CallsSinceReset({"setMessage", "incrementCount"}))
  /\ helloStore.message =
       IF sets = {} THEN ""
       ELSE helloCalls[CHOOSE i \in sets : \A j \in sets : j <= i].arg

\* calls of all three actions: a setMessage, then a reset, then a setMessage
\* and an incrementCount
C19_Witness ==
  /\ Len(helloCalls) = 4
  /\ helloCalls[1].fn = "setMessage" /\ helloCalls[1].arg = "Hello"
  /\ helloCalls[2].fn = "reset"
  /\ helloCalls[3].fn = "setMessage" /\ helloCalls[3].arg = "World"
  /\ helloCalls[4].fn = "incrementCount"
  /\ helloStore = [message |-> "World", count |-> 2]

\* the call that the step makes on the store
CallMade(fn) ==
  /\ Len(helloCalls') = Len(helloCalls) + 1
  /\ helloCalls'[Len(helloCalls')].fn = fn

PreviousCall(fn) ==
  /\ Len(helloCalls) > 0
  /\ helloCalls[Len(helloCalls)].fn = fn

\* C20: an incrementCount call leaves message as it was; a reset call leaves
\* the store in the state it was created with, so a reset after a reset
\* changes nothing and a setMessage after a reset leaves count at 1.
C20_IncrementKeepsMessageResetRestores ==
  [][/\ CallMade("incrementCount") => helloStore'.message = helloStore.message
     /\ CallMade("reset") => helloStore' = useHelloStore
     /\ (CallMade("reset") /\ PreviousCall("reset")) => helloStore' = helloStore
     /\ (CallMade("setMessage") /\ PreviousCall("reset")) =>
          helloStore'.count = 1]_vars

\* an incrementCount call on a store with a message, a reset of a store that
\* is not in its initial state, and a setMessage call after it
C20_Witness ==
  /\ Len(helloCalls) = 4
  /\ helloCalls[1].fn = "setMessage" /\ helloCalls[1].arg = "Hello"
  /\ helloCalls[2].fn = "incrementCount"
  /\ helloCalls[3].fn = "reset"
  /\ helloCalls[4].fn = "setMessage"
  /\ helloStore.count = 1

\* a run of the seed script with DEFAULT_ADMIN_EMAIL = email ends
SeedRan(email) ==
  /\ seeded'.runs = seeded.runs + 1
  /\ seeded'.email = email

AccountsOf(table, email) == {u \in DOMAIN table : table[u].email = email}

\* C21: a run of the seed script with DEFAULT_ADMIN_EMAIL set to an address
\* leaves exactly one Account with the address, with role ADMIN: created
\* when there was none, only its role changed when it was a USER, nothing
\* changed when it was an ADMIN; a run that follows a run with the same
\* address, with the User table as that run left it, changes nothing; and
\* a run with the variable unset changes nothing.
C21_SeedIdempotent ==
  [][\A email \in SeedEnv :
       SeedRan(email) =>
         /\ UNCHANGED <<links, sessions, nextSessionId>>
         /\ email = Unset => UNCHANGED <<users, nextUserId>>
         /\ emailRegex_test(email) =>
              /\ Cardinality(AccountsOf(users', email)) = 1
              /\ \A u \in AccountsOf(users', email) : users'[u].role = "ADMIN"
              /\ AccountsOf(users, email) = {} =>
                   /\ DOMAIN users' = UserIds \cup AccountsOf(users', email)
                   /\ \A u \in UserIds : users'[u] = users[u]
              /\ \A u \in AccountsOf(users, email) :
                   users' = [users EXCEPT ![u].role = "ADMIN"]
              /\ (seeded.runs > 0 /\ seeded.email = email /\ seeded.users = users)
                   => UNCHANGED <<users, nextUserId>>]_vars

\* three runs of the script have ended, the last of them with the address
\* of an account that a login had created, and the account is an ADMIN
C21_Witness ==
  /\ seeded.runs = 3
  /\ seeded.email \in Emails
  /\ seeded.users = users
  /\ \E u \in UserIds :
       /\ users[u].email = seeded.email
       /\ users[u].role = "ADMIN"
       /\ users[u].lastLoginAt # NoTime

\* the link is unconsumed and the clock is strictly before its expiry
Redeemable(l) == ~IsUsed(links[l]) /\ now < links[l].expiresAt

\* C22: a verifyMagicLink call for a link gets past the expiry and consumed
\* checks exactly when the link is unconsumed and the clock is strictly
\* before its expiry; a call made when the clock equals the expiry or has
\* passed it fails with 'expired'.
C22_RedeemableIffBeforeExpiry ==
  [][\A token \in mailbox :
       (VerifyTakenUp(token) /\ LinkByToken(token) # NoLink) =>
         LET l == LinkByToken(token) IN
         /\ Redeemable(l) <=>
              ~(last'.op = "verifyMagicLink"
                /\ last'.res.err \in {"EXPIRED", "ALREADY_USED"})
         /\ links[l].expiresAt <= now =>
              (last'.op = "verifyMagicLink" /\ last'.res.err = "EXPIRED")]_vars

\* C23: of the overlapping refreshToken calls that present one credential
\* at most one returns a pair: a call in flight when another call returned a
\* pair for the credential it presents fails, and a call that returns a
\* pair leaves its refresh credential in the Session row.
C23_LoserFailsCleanly ==
  [][\A p \in Procs :
       (/\ Responds
        /\ last'.op = "refreshToken"
        /\ req[p].op = "refreshToken"
        /\ req'[p] = Idle)
         => /\ [token |-> req[p].arg, slot |-> p] \in overtaken => ~last'.res.ok
            /\ last'.res.ok =>
                 sessions'[last'.res.session].refreshToken = last'.res.refreshToken]_vars

\* the account that a verifyMagicLink or refreshToken call returned a pair for
PairOwner(response, table) ==
  IF response.op = "verifyMagicLink" THEN response.res.user.id
  ELSE table[response.res.session].userId

\* C24: no verifyMagicLink or refreshToken call returns a pair for an account
\* that is inactive when the call returns; a call that fails with the
\* account-deactivated error changes no MagicLink and no Session row.
C24_NoPairForInactive ==
  [][(Responds /\ last'.op \in {"verifyMagicLink", "refreshToken"}) =>
       /\ last'.res.ok => users'[PairOwner(last', sessions')].isActive
       /\ last'.res.err = "DEACTIVATED" => UNCHANGED <<links, sessions>>]_vars

\* the step takes up a refreshToken call that presents the credential of a
\* Session row whose stored expiry has passed
ExpiredSessionPresented(token) ==
  /\ AllIdle
  /\ last = NoResponse
  /\ \/ last'.op = "refreshToken" /\ last'.arg = token
     \/ \E p \in Procs : req'[p].op = "refreshToken" /\ req'[p].arg = token
  /\ SessionByRefreshToken(token) # NoSession
  /\ sessions[SessionByRefreshToken(token)].expiresAt < now

\* the call taken up with `token` is about to delete the Session row
GoesOnToDelete(token) ==
  \E p \in Procs :
    /\ req'[p].op = "refreshToken"
    /\ req'[p].pc = "deleteExpired"
    /\ req'[p].arg = token

\* the step ends a refreshToken call that found the Session row expired
ExpiredSessionAnswered(p) ==
  /\ req[p].op = "refreshToken"
  /\ req[p].pc = "deleteExpired"
  /\ req'[p] = Idle

\* what the call that found the row expired ends with: the row is deleted,
\* the error is 'session expired', and no row holds the credential
ExpiredSessionDeleted ==
  \A p \in Procs :
    ExpiredSessionAnswered(p) =>
      /\ last'.res.err = "SESSION_EXPIRED"
      /\ sessions' = Without(sessions, {req[p].session})
      /\ \A s \in DOMAIN sessions' : sessions'[s].refreshToken # req[p].arg

\* C25 as stated: every refreshToken call that presents the credential of a
\* Session row whose stored expiry has passed goes on to delete the row and
\* fails with 'session expired'.
C25_ExpiredSessionDeleted ==
  [][/\ \A token \in issuedRefresh :
          ExpiredSessionPresented(token) =>
            GoesOnToDelete(token)
     /\ ExpiredSessionDeleted]_vars

\* C25, amended: a refreshToken call that presents a credential which
\* passes verifyRefreshToken, and which is the credential of a Session row
\* whose stored expiry has passed, goes on to delete the row and fails with
\* 'session expired'; a credential that has itself run out is answered
\* 'invalid refresh token' and its row is left in place.
C25_ExpiredSessionDeletedIfVerified ==
  [][/\ \A token \in issuedRefresh :
          ExpiredSessionPresented(token) =>
            IF verifyRefreshToken(token, now) # NullPayload
            THEN GoesOnToDelete(token)
            ELSE /\ last'.res.err = "INVALID_REFRESH_TOKEN"
                 /\ UNCHANGED sessions
     /\ ExpiredSessionDeleted]_vars

\* a call that presented the credential of an expired Session row has been
\* answered 'session expired' and no row holds the credential
C25_Witness ==
  /\ last.op = "refreshToken"
  /\ last.res.err = "SESSION_EXPIRED"
  /\ last.arg \in issuedRefresh
  /\ SessionByRefreshToken(last.arg) = NoSession

\* C26: the refresh credential that a Session row of an active account
\* holds (it was neither rotated nor revoked) is accepted by refreshToken
\* exactly as long as the clock is before its issue time plus
\* JWT_REFRESH_EXPIRY: the row's stored expiry and the credential's own
\* expiry agree.
C26_LifetimeIsConfigured ==
  \A s \in SessionIds :
    LET token == sessions[s].refreshToken IN
    users[sessions[s].userId].isActive =>
      (Accepts(token) <=> Sec(now) < token.iat + JWT_REFRESH_EXPIRY)

\* the strings that jsonwebtoken's expiresIn takes as a time span
IsTimeSpan(value) == value \in {"15m", "7d", "30d"}

\* a secret that is missing or shorter than 32 characters
BadSecret(value) == value = Undefined \/ Len(value) < 32

\* one of the five required values is absent or malformed
Defective(e) ==
  \/ BadSecret(e.JWT_SECRET)
  \/ BadSecret(e.JWT_REFRESH_SECRET)
  \/ e.JWT_REFRESH_SECRET = e.JWT_SECRET
  \/ ~IsTimeSpan(e.JWT_ACCESS_EXPIRY)
  \/ ~IsTimeSpan(e.JWT_REFRESH_EXPIRY)
  \/ e.MAGIC_LINK_EXPIRY_MINUTES = Undefined
  \/ Number(e.MAGIC_LINK_EXPIRY_MINUTES).NaN

\* C27: validateEnv throws for every environment in which a secret is
\* missing or shorter than 32 characters, the refresh secret equals the
\* access secret, or a lifetime is absent or malformed, so that the backend
\* handles no request under such an environment.
C27_DefectiveEnvIsFatal ==
  Defective(processEnv) => env.threw

\* C28: a successful refreshToken call returns a refresh credential other
\* than the one presented, no two Session rows hold the same refresh
\* credential, and no verifyMagicLink call fails on the unique constraint of
\* Session.refreshToken after it has marked its link consumed, whatever the
\* clock second of the minting operations.
C28_FreshCredentials ==
  /\ (last.op = "refreshToken" /\ last.res.ok) =>
        last.res.refreshToken # last.arg
  /\ \A s1, s2 \in SessionIds :
        sessions[s1].refreshToken = sessions[s2].refreshToken => s1 = s2
  /\ (last.op = "verifyMagicLink" /\ LinkByToken(last.arg) # NoLink
        /\ IsUsed(links[LinkByToken(last.arg)]))
        => last.res.err # "P2002"

\* the step ends with an error a verifyMagicLink call that had passed its
\* checks: it had found its link unconsumed
VerifyFailsLate(p) ==
  /\ Responds
  /\ req[p].op = "verifyMagicLink"
  /\ req'[p] = Idle
  /\ ~last'.res.ok

\* C29: a verifyMagicLink call that returns an error has written nothing:
\* when a call that had found its link unconsumed ends with an error the
\* link is unconsumed, and the call has created no Account and no Session.
C29_ErrorLeavesStateUnchanged ==
  [][\A p \in Procs :
       VerifyFailsLate(p) =>
         /\ ~IsUsed(links'[LinkByToken(req[p].arg)])
         /\ req[p].pc \in {"markUsed", "createSession", "touchUser"} =>
              ~req[p].created
         /\ req[p].pc # "touchUser"]_vars

\* C30: the request gate decides from the access credential alone: every
\* access credential that was issued and has not expired passes the
\* protected tier, and passes the admin tier exactly when the role embedded
\* in it is ADMIN, whatever the stored account says; and the access
\* credential that a successful refreshToken call returns carries the role
\* stored for the account.
C30_GateIgnoresStorage ==
  [][/\ \A token \in issuedAccess :
          Sec(now) < token.exp =>
            LET ctx == createContext(Bearer(token), now) IN
            /\ protectedProcedure(ctx) = "next"
            /\ adminProcedure(ctx) = "next" <=> token.role = "ADMIN"
     /\ (Responds /\ last'.op = "refreshToken" /\ last'.res.ok) =>
          last'.res.accessToken.role = users'[PairOwner(last', sessions')].role]_vars

\* an admin procedure has been carried out for a caller whose access
\* credential says ADMIN while the stored account is a USER
C30_Witness ==
  /\ last.op \in AdminOps
  /\ last.res.ok
  /\ last.arg.ctx.role = "ADMIN"
  /\ last.arg.ctx.userId \in UserIds
  /\ users[last.arg.ctx.userId].role = "USER"
====
